---------------------------- MODULE Spec2Model ----------------------------
(***************************************************************************)
(* A model of the base64 codec of hunglongtrangithub/base64.               *)
(*                                                                         *)
(* Bytes and characters are naturals in 0..255; a byte slice or a text is  *)
(* a sequence of them (1-based here, 0-based in the Rust source).  u8      *)
(* arithmetic keeps its width: a left shift drops the bits above bit 7.    *)
(* An Option<u8> is <<>> (None) or <<v>> (Some(v)).                        *)
(***************************************************************************)
EXTENDS Naturals, Sequences, FiniteSets

(***************************************************************************)
(* Bounds of the model.                                                    *)
(***************************************************************************)
\* longest encoder input, in bytes
MaxLen == 6
\* longest decoder input, in characters
MaxText == 8
\* most '=' characters appended to a decoder input after its first decode
MaxPad == 2

\* longest input line typed into run
MaxInput == 4
\* characters typed into run: an alphabet character ('a' = 97) and the
\* padding character ('=' = 61)
UiChars == {97, 61}

\* byte values the encoder inputs are drawn from: all zeros, all ones, the
\* top bit alone, and the letters of the test vectors ('f' = 102, 'o' = 111)
ByteSample == {0, 102, 111, 128, 255}

\* characters the decoder inputs are drawn from: two alphabet characters
\* ('a' = 97, '/' = 47), the padding character ('=' = 61) and a character
\* outside the alphabet ('!' = 33)
CharSample == {97, 47, 61, 33}

(***************************************************************************)
(* Constants of src/src/main.rs.                                           *)
(***************************************************************************)
N == 64

\* b"ABCDEFGHIJKLMNOPQRSTUVWXYZabcdefghijklmnopqrstuvwxyz0123456789+/"
TABLE ==
    << 65, 66, 67, 68, 69, 70, 71, 72, 73, 74, 75, 76, 77,
       78, 79, 80, 81, 82, 83, 84, 85, 86, 87, 88, 89, 90,
       97, 98, 99, 100, 101, 102, 103, 104, 105, 106, 107, 108, 109,
       110, 111, 112, 113, 114, 115, 116, 117, 118, 119, 120, 121, 122,
       48, 49, 50, 51, 52, 53, 54, 55, 56, 57,
       43, 47 >>

\* b'='
PAD_CHAR == 61

(***************************************************************************)
(* u8 operations.                                                          *)
(***************************************************************************)
Byte == 0..255

Min(a, b) == IF a < b THEN a ELSE b

\* a left shift that keeps the bits above bit 7
Shl_wide(x, n) == x * (2 ^ n)

\* x << n on a u8: the bits shifted above bit 7 are lost
Shl(x, n) == (x * (2 ^ n)) % 256

\* x >> n on a u8
Shr(x, n) == x \div (2 ^ n)

RECURSIVE BitOr(_, _)
\* a | b
BitOr(a, b) ==
    IF a = 0 THEN b
    ELSE IF b = 0 THEN a
    ELSE (IF a % 2 = 1 \/ b % 2 = 1 THEN 1 ELSE 0) + 2 * BitOr(a \div 2, b \div 2)

RECURSIVE BitAnd(_, _)
\* a & b
BitAnd(a, b) ==
    IF a = 0 \/ b = 0 THEN 0
    ELSE (IF a % 2 = 1 /\ b % 2 = 1 THEN 1 ELSE 0) + 2 * BitAnd(a \div 2, b \div 2)

\* Option<u8>
None == << >>
Some(v) == << v >>

(***************************************************************************)
(* The encoder, src/src/encode.rs.                                         *)
(***************************************************************************)
mask_6_bit == 63

\* encode_3_bytes without the mask on the shifted byte: the bits of the
\* first byte stay in the sextet
encode_3_bytes_nomask(input_slice) ==
    LET s == SubSeq(input_slice, 1, Min(Len(input_slice), 3))
    IN  CASE Len(s) = 3 ->
                << Shr(s[1], 2),
                   BitOr(Shl(s[1], 4), Shr(s[2], 4)),
                   BitOr(Shl(s[2], 2), Shr(s[3], 6)),
                   BitAnd(s[3], mask_6_bit) >>
          [] Len(s) = 2 ->
                << Shr(s[1], 2),
                   BitOr(Shl(s[1], 4), Shr(s[2], 4)),
                   Shl(s[2], 2),
                   N >>
          [] Len(s) = 1 ->
                << Shr(s[1], 2), Shl(s[1], 4), N, N >>
          [] OTHER -> << N, N, N, N >>

\* encode_3_bytes taking the low bits of the third sextet from the wrong
\* place of the third byte
encode_3_bytes_shift(input_slice) ==
    LET s == SubSeq(input_slice, 1, Min(Len(input_slice), 3))
    IN  CASE Len(s) = 3 ->
                << Shr(s[1], 2),
                   BitOr(BitAnd(Shl(s[1], 4), mask_6_bit), Shr(s[2], 4)),
                   BitOr(BitAnd(Shl(s[2], 2), mask_6_bit), Shr(s[3], 4)),
                   BitAnd(s[3], mask_6_bit) >>
          [] Len(s) = 2 ->
                << Shr(s[1], 2),
                   BitOr(BitAnd(Shl(s[1], 4), mask_6_bit), Shr(s[2], 4)),
                   BitAnd(Shl(s[2], 2), mask_6_bit),
                   N >>
          [] Len(s) = 1 ->
                << Shr(s[1], 2), BitAnd(Shl(s[1], 4), mask_6_bit), N, N >>
          [] OTHER -> << N, N, N, N >>

\* The four table indices encode_3_bytes leaves in output_slice; N marks a
\* position that holds no sextet.  In Rust `a & m | b` is `(a & m) | b`.
encode_3_bytes(input_slice) ==
    LET s == SubSeq(input_slice, 1, Min(Len(input_slice), 3))
    IN  CASE Len(s) = 3 ->
                << Shr(s[1], 2),
                   BitOr(BitAnd(Shl(s[1], 4), mask_6_bit), Shr(s[2], 4)),
                   BitOr(BitAnd(Shl(s[2], 2), mask_6_bit), Shr(s[3], 6)),
                   BitAnd(s[3], mask_6_bit) >>
          [] Len(s) = 2 ->
                << Shr(s[1], 2),
                   BitOr(BitAnd(Shl(s[1], 4), mask_6_bit), Shr(s[2], 4)),
                   BitAnd(Shl(s[2], 2), mask_6_bit),
                   N >>
          [] Len(s) = 1 ->
                << Shr(s[1], 2), BitAnd(Shl(s[1], 4), mask_6_bit), N, N >>
          [] OTHER -> << N, N, N, N >>

\* input_bytes.as_chunks::<3>(): the number of full chunks, and the remainder
EncChunksLen(input_bytes) == Len(input_bytes) \div 3
EncRemainder(input_bytes) ==
    SubSeq(input_bytes, 3 * EncChunksLen(input_bytes) + 1, Len(input_bytes))

\* chunks[i], i from 0
EncChunk(input_bytes, i) == SubSeq(input_bytes, 3 * i + 1, 3 * i + 3)

\* output_len with the room for a remainder added whether there is one or not
EncOutputLen_always(input_bytes) == 4 * EncChunksLen(input_bytes) + 4

\* output_len of encode_bytes
EncOutputLen(input_bytes) ==
    IF EncRemainder(input_bytes) = << >>
    THEN 4 * EncChunksLen(input_bytes)
    ELSE 4 * EncChunksLen(input_bytes) + 4

\* dst[start .. start + len(src)].copy_from_slice(src), start from 0
CopyFromSlice(dst, start, src) ==
    [j \in 1..Len(dst) |->
        IF j > start /\ j <= start + Len(src) THEN src[j - start] ELSE dst[j]]

RECURSIVE EncodeLoop(_, _, _)
\* the loop `for i in 0..chunks.len()` of encode_bytes, from iteration i on
EncodeLoop(input_bytes, i, output_bytes) ==
    IF i >= EncChunksLen(input_bytes) THEN output_bytes
    ELSE EncodeLoop(input_bytes, i + 1,
            CopyFromSlice(output_bytes, 4 * i, encode_3_bytes(EncChunk(input_bytes, i))))

\* *TABLE.get(table_index).unwrap_or(&PAD_CHAR)
TableChar(table_index) ==
    IF table_index < Len(TABLE) THEN TABLE[table_index + 1] ELSE PAD_CHAR

\* encode_bytes: the base64 text of input_bytes
encode_bytes(input_bytes) ==
    LET output_len == EncOutputLen(input_bytes)
        zeroed == [j \in 1..output_len |-> 0]
        looped == EncodeLoop(input_bytes, 0, zeroed)
        rem == EncRemainder(input_bytes)
        indices == IF rem # << >>
                   THEN CopyFromSlice(looped, 4 * EncChunksLen(input_bytes),
                                      encode_3_bytes(rem))
                   ELSE looped
    IN  [j \in 1..output_len |-> TableChar(indices[j])]

(***************************************************************************)
(* The alphabet's inverse, src/src/main.rs.                                *)
(***************************************************************************)
RECURSIVE BinarySearchFrom(_, _, _, _)
\* slice.binary_search(&x) on the part lo .. hi (0-based, hi excluded) of a
\* sorted slice: Some(position) when x is found, None for Err(_)
BinarySearchFrom(slice, x, lo, hi) ==
    IF lo >= hi THEN None
    ELSE LET mid == lo + ((hi - lo) \div 2)
         IN  IF slice[mid + 1] = x THEN Some(mid)
             ELSE IF slice[mid + 1] < x THEN BinarySearchFrom(slice, x, mid + 1, hi)
             ELSE BinarySearchFrom(slice, x, lo, mid)

BinarySearch(slice, x) == BinarySearchFrom(slice, x, 0, Len(slice))

\* option.map(|i| i + k)
MapAdd(option, k) == IF option = None THEN None ELSE Some(option[1] + k)

\* get_table_index with the offset of the digits forgotten
get_table_index_nooffset(input_char) ==
    CASE input_char >= 65 /\ input_char <= 122 ->
            BinarySearch(SubSeq(TABLE, 1, 52), input_char)
      [] input_char >= 48 /\ input_char <= 57 ->
            BinarySearch(SubSeq(TABLE, 53, 62), input_char)
      [] input_char = 43 -> Some(N - 2)
      [] input_char = 47 -> Some(N - 1)
      [] OTHER -> None

\* get_table_index: b'A' = 65, b'z' = 122, b'0' = 48, b'9' = 57, b'+' = 43,
\* b'/' = 47
get_table_index(input_char) ==
    CASE input_char >= 65 /\ input_char <= 122 ->
            MapAdd(BinarySearch(SubSeq(TABLE, 1, 52), input_char), 0)
      [] input_char >= 48 /\ input_char <= 57 ->
            MapAdd(BinarySearch(SubSeq(TABLE, 53, 62), input_char), 52)
      [] input_char = 43 -> Some(N - 2)
      [] input_char = 47 -> Some(N - 1)
      [] OTHER -> None

(***************************************************************************)
(* The decoder, src/src/decode.rs.                                         *)
(***************************************************************************)
\* Result<Box<[u8]>, DecodeError>, and a panic of the call
Ok(bytes) == [tag |-> "Ok", bytes |-> bytes, byte |-> 0]
InputLength == [tag |-> "InputLength", bytes |-> << >>, byte |-> 0]
WrongPadding == [tag |-> "WrongPadding", bytes |-> << >>, byte |-> 0]
InvalidByte(b) == [tag |-> "InvalidByte", bytes |-> << >>, byte |-> b]
Panic == [tag |-> "Panic", bytes |-> << >>, byte |-> 0]

RECURSIVE TrimEndFrom(_, _)
\* the loop `while end > 0` of decode_bytes: the final value of end
TrimEndFrom(input_bytes, end) ==
    IF end > 0 /\ input_bytes[end] = PAD_CHAR
    THEN TrimEndFrom(input_bytes, end - 1)
    ELSE end

\* the trim loop stopping after two padding characters
TrimEnd_atmost2(input_bytes) ==
    LET n == Len(input_bytes)
    IN  IF n > 0 /\ input_bytes[n] = PAD_CHAR
        THEN IF n > 1 /\ input_bytes[n - 1] = PAD_CHAR THEN n - 2 ELSE n - 1
        ELSE n

\* end, once the trim loop has run from input_bytes.len()
TrimEnd(input_bytes) == TrimEndFrom(input_bytes, Len(input_bytes))

\* the shadowed input_bytes (&input_bytes[..end]) and trailing_len
Core(input_bytes) == SubSeq(input_bytes, 1, TrimEnd(input_bytes))
TrailingLen(input_bytes) == Len(input_bytes) - TrimEnd(input_bytes)

\* core.as_chunks::<4>(): the number of full chunks, chunks[idx] (idx from
\* 0), and the remainder
DecChunksLen(core) == Len(core) \div 4
DecChunk(core, idx) == SubSeq(core, 4 * idx + 1, 4 * idx + 4)
DecRemainder(core) == SubSeq(core, 4 * DecChunksLen(core) + 1, Len(core))

\* what the match on remainder.len() yields: output_len, or an early return
Proceed(output_len) == [err |-> None, output_len |-> output_len]
Fail(error) == [err |-> Some(error), output_len |-> 0]

\* the length match without the early return for a remainder of one
\* character, which is then left to the match after the loop
LengthCheck_norem1(core, trailing_len) ==
    LET rem == Len(DecRemainder(core))
    IN  CASE rem = 0 -> Proceed(3 * DecChunksLen(core))
          [] rem = 1 -> Proceed(3 * DecChunksLen(core))
          [] rem = 2 -> IF trailing_len < 2 THEN Fail(WrongPadding)
                        ELSE Proceed(3 * DecChunksLen(core) + 1)
          [] OTHER -> IF trailing_len < 1 THEN Fail(WrongPadding)
                      ELSE Proceed(3 * DecChunksLen(core) + 2)

\* the length match with the padding of a two-character remainder unchecked
LengthCheck_nopad2(core, trailing_len) ==
    LET rem == Len(DecRemainder(core))
    IN  CASE rem = 0 -> Proceed(3 * DecChunksLen(core))
          [] rem = 1 -> Fail(InputLength)
          [] rem = 2 -> Proceed(3 * DecChunksLen(core) + 1)
          [] OTHER -> IF trailing_len < 1 THEN Fail(WrongPadding)
                      ELSE Proceed(3 * DecChunksLen(core) + 2)

\* the match that computes output_len: output_len, or the error returned
LengthCheck(core, trailing_len) ==
    LET rem == Len(DecRemainder(core))
    IN  CASE rem = 0 -> Proceed(3 * DecChunksLen(core))
          [] rem = 1 -> Fail(InputLength)
          [] rem = 2 -> IF trailing_len < 2 THEN Fail(WrongPadding)
                        ELSE Proceed(3 * DecChunksLen(core) + 1)
          [] OTHER -> IF trailing_len < 1 THEN Fail(WrongPadding)
                      ELSE Proceed(3 * DecChunksLen(core) + 2)

\* Box::<[u8]>::new_uninit_slice(output_len): no slot holds a value
NewUninitSlice(output_len) == [j \in 1..output_len |-> None]

RECURSIVE FirstErr(_)
\* the first get_index(b)? that returns, over the bytes in the order they
\* are looked up: Some(b) for Err(InvalidByte(b)), None when all map
FirstErr(lookups) ==
    IF lookups = << >> THEN None
    ELSE IF get_table_index(Head(lookups)) = None THEN Some(Head(lookups))
    ELSE FirstErr(Tail(lookups))

\* get_index(b)?, for a byte that maps
Idx(b) == get_table_index(b)[1]

\* the bytes a full chunk is repacked to
Byte0(c) == BitOr(Shl(Idx(c[1]), 2), Shr(Idx(c[2]), 4))
Byte1(c) == BitOr(Shl(Idx(c[2]), 4), Shr(Idx(c[3]), 2))
Byte2(c) == BitOr(Shl(Idx(c[3]), 6), Idx(c[4]))

\* the characters looked up from the last one back to the first
LookupOrder_rev(c) ==
    CASE Len(c) = 4 -> << c[4], c[3], c[3], c[2], c[2], c[1] >>
      [] Len(c) = 3 -> << c[3], c[2], c[2], c[1] >>
      [] Len(c) = 2 -> << c[2], c[1] >>
      [] OTHER -> << >>

\* the order in which the characters of a chunk, or of a remainder of 2 or 3
\* characters, are looked up
LookupOrder(c) ==
    CASE Len(c) = 4 -> << c[1], c[2], c[2], c[3], c[3], c[4] >>
      [] Len(c) = 3 -> << c[1], c[2], c[2], c[3] >>
      [] Len(c) = 2 -> << c[1], c[2] >>
      [] OTHER -> << >>

\* chunk.contains(&PAD_CHAR)
Contains(chunk, b) == \E j \in 1..Len(chunk) : chunk[j] = b

\* the state of a decode_bytes call: the error it returned, if any, and the
\* slots of output_bytes
Running(output_bytes) == [err |-> None, buf |-> output_bytes]
Returned(error) == [err |-> Some(error), buf |-> << >>]

\* output_bytes[i].write(v), i from 0; an index out of range panics
Write(state, i, v) ==
    IF state.err # None THEN state
    ELSE IF i >= Len(state.buf) THEN Returned(Panic)
    ELSE Running([state.buf EXCEPT ![i + 1] = Some(v)])

\* the loop body with the characters translated before the chunk is searched
\* for a padding character
DecodeChunk_translatefirst(state, core, idx) ==
    LET chunk == DecChunk(core, idx)
        bad == FirstErr(LookupOrder(chunk))
        start_idx == 3 * idx
    IN  IF bad # None THEN Returned(InvalidByte(bad[1]))
        ELSE IF Contains(chunk, PAD_CHAR) THEN Returned(WrongPadding)
        ELSE Write(Write(Write(state, start_idx, Byte0(chunk)),
                         start_idx + 1, Byte1(chunk)),
                   start_idx + 2, Byte2(chunk))

\* the body of the loop over the full chunks, for chunks[idx]
DecodeChunk(state, core, idx) ==
    LET chunk == DecChunk(core, idx)
        bad == FirstErr(LookupOrder(chunk))
        start_idx == 3 * idx
    IN  IF Contains(chunk, PAD_CHAR) THEN Returned(WrongPadding)
        ELSE IF bad # None THEN Returned(InvalidByte(bad[1]))
        ELSE Write(Write(Write(state, start_idx, Byte0(chunk)),
                         start_idx + 1, Byte1(chunk)),
                   start_idx + 2, Byte2(chunk))

RECURSIVE DecodeLoop(_, _, _)
\* the loop `for (idx, chunk) in chunks.iter().enumerate()`, from iteration
\* idx on; a return inside the body ends it
DecodeLoop(state, core, idx) ==
    IF state.err # None \/ idx >= DecChunksLen(core) THEN state
    ELSE DecodeLoop(DecodeChunk(state, core, idx), core, idx + 1)

\* the match after the loop writing only the first byte of a remainder of
\* three characters
DecodeRemainder_onewrite(state, core) ==
    LET remainder == DecRemainder(core)
        bad == FirstErr(LookupOrder(remainder))
        start_index == 3 * DecChunksLen(core)
    IN  IF state.err # None THEN state
        ELSE CASE Len(remainder) = 0 -> state
               [] Len(remainder) = 1 -> Returned(InputLength)
               [] OTHER ->
                    IF bad # None THEN Returned(InvalidByte(bad[1]))
                    ELSE Write(state, start_index, Byte0(remainder))

\* the match on remainder.len() after the loop
DecodeRemainder(state, core) ==
    LET remainder == DecRemainder(core)
        bad == FirstErr(LookupOrder(remainder))
        start_index == 3 * DecChunksLen(core)
    IN  IF state.err # None THEN state
        ELSE CASE Len(remainder) = 0 -> state
               [] Len(remainder) = 1 -> Returned(InputLength)
               [] Len(remainder) = 2 ->
                    IF bad # None THEN Returned(InvalidByte(bad[1]))
                    ELSE Write(state, start_index, Byte0(remainder))
               [] OTHER ->
                    IF bad # None THEN Returned(InvalidByte(bad[1]))
                    ELSE Write(Write(state, start_index, Byte0(remainder)),
                               start_index + 1, Byte1(remainder))

\* decode_bytes up to the line before assume_init: the error returned, or
\* the slots of output_bytes
DecodeRun(input_bytes) ==
    LET core == Core(input_bytes)
        checked == LengthCheck(core, TrailingLen(input_bytes))
    IN  IF checked.err # None THEN Returned(checked.err[1])
        ELSE DecodeRemainder(
                DecodeLoop(Running(NewUninitSlice(checked.output_len)), core, 0),
                core)

\* output_bytes.assume_init(): the values of the slots; a slot never written
\* holds any byte
AssumeInit(buf) ==
    IF \A j \in 1..Len(buf) : buf[j] # None
    THEN {[j \in 1..Len(buf) |-> buf[j][1]]}
    ELSE {[j \in 1..Len(buf) |-> IF buf[j] = None THEN g ELSE buf[j][1]] : g \in Byte}

\* decode_bytes: the values the call can return
decode_bytes(input_bytes) ==
    LET run == DecodeRun(input_bytes)
    IN  IF run.err # None THEN {run.err[1]}
        ELSE {Ok(bytes) : bytes \in AssumeInit(run.buf)}

(***************************************************************************)
(* The earlier decoder, src/src/main.rs.  An Option<Box<[u8]>> is << >>    *)
(* (None) or << bytes >> (Some(bytes)).                                    *)
(***************************************************************************)
\* input_len of decode_4_bytes: the length of the slice without its trailing
\* padding characters
InputLen4(input_slice) == TrimEndFrom(input_slice, Len(input_slice))

\* decode_4_bytes: None, or Some of the bytes written to output_slice (their
\* number is the value the function returns)
decode_4_bytes(input_slice, is_last) ==
    LET s == SubSeq(input_slice, 1, Min(Len(input_slice), 4))
        input_len == InputLen4(s)
        used == SubSeq(s, 1, input_len)
    IN  IF input_len = 4
        THEN IF FirstErr(s) # None THEN None
             ELSE Some(<< Byte0(s), Byte1(s), Byte2(s) >>)
        ELSE IF ~is_last THEN None
        ELSE IF FirstErr(used) # None THEN None
        ELSE CASE input_len = 3 -> Some(<< Byte0(used), Byte1(used) >>)
               [] input_len = 2 -> Some(<< Byte0(used) >>)
               [] input_len = 0 -> Some(<< >>)
               [] OTHER -> None

\* the state of the earlier decode_bytes: whether a `?` has returned None,
\* output_bytes and output_index
MainState(failed, output_bytes, output_index) ==
    [failed |-> failed, output_bytes |-> output_bytes, output_index |-> output_index]

RECURSIVE MainLoop(_, _, _)
\* the loop `for (idx, chunk) in chunks.iter().enumerate()` of the earlier
\* decode_bytes, from iteration idx on
MainLoop(state, input_bytes, idx) ==
    IF state.failed \/ idx >= DecChunksLen(input_bytes) THEN state
    ELSE LET is_last == /\ DecRemainder(input_bytes) = << >>
                        /\ idx = DecChunksLen(input_bytes) - 1
             written == decode_4_bytes(DecChunk(input_bytes, idx), is_last)
         IN  IF written = None
             THEN MainLoop(MainState(TRUE, state.output_bytes, state.output_index),
                           input_bytes, idx + 1)
             ELSE MainLoop(
                    MainState(FALSE,
                              CopyFromSlice(state.output_bytes, state.output_index,
                                            written[1]),
                              state.output_index + Len(written[1])),
                    input_bytes, idx + 1)

\* the `if !remainder.is_empty()` step: the bytes are copied and
\* output_index is left as it is
MainRemainder(state, input_bytes) ==
    LET remainder == DecRemainder(input_bytes)
        written == decode_4_bytes(remainder, TRUE)
    IN  IF state.failed \/ remainder = << >> THEN state
        ELSE IF written = None
        THEN MainState(TRUE, state.output_bytes, state.output_index)
        ELSE MainState(FALSE,
                       CopyFromSlice(state.output_bytes, state.output_index, written[1]),
                       state.output_index)

\* the earlier decode_bytes (fn decode_bytes of main.rs)
main_decode_bytes(input_bytes) ==
    LET output_len == IF DecRemainder(input_bytes) = << >>
                      THEN 3 * DecChunksLen(input_bytes)
                      ELSE 3 * DecChunksLen(input_bytes) + 3
        start == MainState(FALSE, [j \in 1..output_len |-> 0], 0)
        final == MainRemainder(MainLoop(start, input_bytes, 0), input_bytes)
    IN  IF final.failed THEN None
        ELSE Some(SubSeq(final.output_bytes, 1, final.output_index))

(***************************************************************************)
(* The text layer: encode_string (encode.rs), decode_string (decode.rs) as *)
(* src/src/app.rs uses them.  A String is the sequence of its UTF-8 bytes. *)
(***************************************************************************)
\* b & 0b1100_0000 == 0b1000_0000: a UTF-8 continuation byte
IsCont(b) == b >= 128 /\ b <= 191

\* v[i], i from 0, or 0 past the end
SafeGet(v, i) == IF i < Len(v) THEN v[i + 1] ELSE 0

\* the length of the UTF-8 sequence a byte starts, 0 when it starts none
Utf8CharWidth(b) ==
    CASE b < 128 -> 1
      [] b >= 194 /\ b <= 223 -> 2
      [] b >= 224 /\ b <= 239 -> 3
      [] b >= 240 /\ b <= 244 -> 4
      [] OTHER -> 0

\* the second byte is one that may follow the lead byte of a 3- or 4-byte
\* sequence
SecondOk(lead, b) ==
    CASE lead = 224 -> b >= 160 /\ b <= 191
      [] lead >= 225 /\ lead <= 236 -> IsCont(b)
      [] lead = 237 -> b >= 128 /\ b <= 159
      [] lead >= 238 /\ lead <= 239 -> IsCont(b)
      [] lead = 240 -> b >= 144 /\ b <= 191
      [] lead >= 241 /\ lead <= 243 -> IsCont(b)
      [] lead = 244 -> b >= 128 /\ b <= 143
      [] OTHER -> FALSE

\* one step of the scan of from_utf8_lossy at position i (from 0): whether a
\* character was read, and the position the scan goes on from
Utf8Step(v, i) ==
    LET lead == v[i + 1]
        w == Utf8CharWidth(lead)
        bad(n) == [ok |-> FALSE, next |-> n]
        good(n) == [ok |-> TRUE, next |-> n]
    IN  CASE w = 1 -> good(i + 1)
          [] w = 2 -> IF IsCont(SafeGet(v, i + 1)) THEN good(i + 2) ELSE bad(i + 1)
          [] w = 3 -> IF ~SecondOk(lead, SafeGet(v, i + 1)) THEN bad(i + 1)
                      ELSE IF ~IsCont(SafeGet(v, i + 2)) THEN bad(i + 2)
                      ELSE good(i + 3)
          [] w = 4 -> IF ~SecondOk(lead, SafeGet(v, i + 1)) THEN bad(i + 1)
                      ELSE IF ~IsCont(SafeGet(v, i + 2)) THEN bad(i + 2)
                      ELSE IF ~IsCont(SafeGet(v, i + 3)) THEN bad(i + 3)
                      ELSE good(i + 4)
          [] OTHER -> bad(i + 1)

RECURSIVE Utf8LossyFrom(_, _)
\* String::from_utf8_lossy(&v[i..]): each invalid sequence becomes U+FFFD
\* (EF BF BD)
Utf8LossyFrom(v, i) ==
    IF i >= Len(v) THEN << >>
    ELSE LET step == Utf8Step(v, i)
         IN  (IF step.ok THEN SubSeq(v, i + 1, step.next) ELSE << 239, 191, 189 >>)
                \o Utf8LossyFrom(v, step.next)

\* encode_string
encode_string(input_string) == Utf8LossyFrom(encode_bytes(input_string), 0)

\* decode_string, as app.rs matches on it: Some(text) or None for an error;
\* the set of the values the call can return
decode_string(input_string) ==
    {IF r.tag = "Ok" THEN Some(Utf8LossyFrom(r.bytes, 0)) ELSE None :
        r \in decode_bytes(input_string)}

(***************************************************************************)
(* The state: one call of the encoder followed by the decoder on its       *)
(* output (Spec), calls of the decoder on a text and on the same text with *)
(* more padding (SpecDecode), and a lookup in the alphabet (SpecTable).    *)
(***************************************************************************)
VARIABLES
    pc,         \* "input", "text", "decoded"; "char", "index" for a lookup
    input,      \* the bytes given to encode_bytes
    text,       \* the text given to decode_bytes
    result,     \* what the last decode_bytes call returned
    first,      \* what decode_bytes returned for the text before any
                \* padding was appended to it
    padded,     \* the number of '=' appended to the text since
    ch,         \* the byte given to get_table_index
    index       \* what get_table_index returned

VARIABLES
    plain,      \* what the earlier decode_bytes returned for the text
    filled      \* what it returned for the text filled up with '=' to a
                \* multiple of 4 characters

\* the loop of run (src/src/app.rs); its input line is the variable input
VARIABLES
    focus,      \* "Input", "Encoded" or "Decoded"
    status_line,
    screen,     \* the three lines as last rendered
    copied,     \* the content of the CopyToClipboard command the last
                \* key press executed: None or Some(content)
    keys,       \* the last key presses, oldest first: the key code and the
                \* focus before the press
    prev_input  \* the input line before the last key press

vars ==
    << pc, input, text, result, first, padded, ch, index, plain, filled,
       focus, status_line, screen, copied, keys, prev_input >>

\* the variables of run
ui == << focus, status_line, screen, copied, keys, prev_input >>

\* the variables the codec calls of decode.rs and encode.rs leave alone
rest == << plain, filled, focus, status_line, screen, copied, keys, prev_input >>

\* status_line as run sets it (without the line end)
HelpStatus ==
    "Use Up/Down to switch focus, Enter to copy focused line to clipboard, Esc to exit."
FailedStatus == "Failed to copy to clipboard."
CopiedStatus == "Copied to clipboard!"

\* "<invalid input>"
InvalidInputText ==
    << 60, 105, 110, 118, 97, 108, 105, 100, 32, 105, 110, 112, 117, 116, 62 >>

\* the values of the variables of run while run is not running
UiIdle ==
    /\ focus = "Input"
    /\ status_line = HelpStatus
    /\ screen = [input |-> << >>, encoded |-> << >>, decoded |-> << >>]
    /\ copied = None
    /\ keys = << >>
    /\ prev_input = << >>

\* their values while nothing has used them
RestIdle ==
    /\ plain = None
    /\ filled = None
    /\ UiIdle

\* no call has returned yet
NoResult == [tag |-> "NoResult", bytes |-> << >>, byte |-> 0]

\* the sequences over S of length at most n
SeqUpTo(S, n) == UNION {[1..k -> S] : k \in 0..n}

\* inputs over every byte value: all those of at most 2 bytes, and all those
\* of 3 bytes that start with 255
FullRangeInputs == SeqUpTo(Byte, 2) \cup {<< 255 >> \o p : p \in [1..2 -> Byte]}

Init ==
    /\ pc = "input"
    /\ input \in SeqUpTo(ByteSample, MaxLen) \cup FullRangeInputs
    /\ text = << >>
    /\ result = NoResult
    /\ first = NoResult
    /\ padded = 0
    /\ ch = 0
    /\ index = None
    /\ RestIdle

InitDecode ==
    /\ pc = "text"
    /\ input = << >>
    /\ text \in SeqUpTo(CharSample, MaxText)
    /\ result = NoResult
    /\ first = NoResult
    /\ padded = 0
    /\ ch = 0
    /\ index = None
    /\ RestIdle

InitTable ==
    /\ pc = "char"
    /\ input = << >>
    /\ text = << >>
    /\ result = NoResult
    /\ first = NoResult
    /\ padded = 0
    /\ ch \in Byte
    /\ index = None
    /\ RestIdle

\* text = encode_bytes(input)
Encode ==
    /\ pc = "input"
    /\ text' = encode_bytes(input)
    /\ pc' = "text"
    /\ UNCHANGED << input, result, first, padded, ch, index >>
    /\ UNCHANGED rest

\* result = decode_bytes(text)
Decode ==
    /\ pc = "text"
    /\ result' \in decode_bytes(text)
    /\ first' = result'
    /\ pc' = "decoded"
    /\ UNCHANGED << input, text, padded, ch, index >>
    /\ UNCHANGED rest

\* one more '=' at the end of the text, and decode_bytes on it
AppendPad ==
    /\ pc = "decoded"
    /\ padded < MaxPad
    /\ text' = Append(text, PAD_CHAR)
    /\ result' \in decode_bytes(text')
    /\ padded' = padded + 1
    /\ UNCHANGED << pc, input, first, ch, index >>
    /\ UNCHANGED rest

\* index = get_table_index(ch)
Lookup ==
    /\ pc = "char"
    /\ index' = get_table_index(ch)
    /\ pc' = "index"
    /\ UNCHANGED << input, text, result, first, padded, ch >>
    /\ UNCHANGED rest

\* the text t followed by as many '=' as make its length a multiple of 4
FillTo4(t) == t \o [j \in 1..((4 - (Len(t) % 4)) % 4) |-> PAD_CHAR]

InitMain ==
    /\ pc = "main"
    /\ input = << >>
    /\ text \in SeqUpTo(CharSample, MaxText)
    /\ result = NoResult
    /\ first = NoResult
    /\ padded = 0
    /\ ch = 0
    /\ index = None
    /\ plain = None
    /\ filled = None
    /\ UiIdle

\* plain = the earlier decode_bytes(text)
MainDecode ==
    /\ pc = "main"
    /\ plain' = main_decode_bytes(text)
    /\ pc' = "plain"
    /\ UNCHANGED << input, text, result, first, padded, ch, index, filled >>
    /\ UNCHANGED ui

\* filled = the earlier decode_bytes(text filled up with '=')
MainDecodeFilled ==
    /\ pc = "plain"
    /\ filled' = main_decode_bytes(FillTo4(text))
    /\ pc' = "filled"
    /\ UNCHANGED << input, text, result, first, padded, ch, index, plain >>
    /\ UNCHANGED ui

(***************************************************************************)
(* run, src/src/app.rs: one action per event read, from the match on the   *)
(* key code through the re-render at the top of the next iteration.        *)
(***************************************************************************)
\* the variables run does not touch
codec == << text, result, first, padded, ch, index, plain, filled >>

\* the three lines the loop prints for an input line: the input, its
\* encoding, and its decoding or the placeholder
Rendered(input_string) ==
    {[input |-> input_string,
      encoded |-> encode_string(input_string),
      decoded |-> IF d = None THEN InvalidInputText ELSE d[1]] :
        d \in decode_string(input_string)}

\* enum Focus
FocusValues == {"Input", "Encoded", "Decoded"}

\* number of key presses kept: one turn of the focus cycle
Window == Cardinality(FocusValues)

\* the key presses kept, with one more
Pressed(code) ==
    LET all == Append(keys, [code |-> code, focus |-> focus])
    IN  IF Len(all) > Window THEN Tail(all) ELSE all

\* the match on focus of KeyCode::Up as that of KeyCode::Down
UpFocus_asdown(f) ==
    CASE f = "Input" -> "Encoded"
      [] f = "Encoded" -> "Decoded"
      [] OTHER -> "Input"

\* the match on focus of KeyCode::Up
UpFocus(f) ==
    CASE f = "Input" -> "Decoded"
      [] f = "Encoded" -> "Input"
      [] OTHER -> "Encoded"

\* the match on focus of KeyCode::Down
DownFocus(f) ==
    CASE f = "Input" -> "Encoded"
      [] f = "Encoded" -> "Decoded"
      [] OTHER -> "Input"

InitUi ==
    /\ pc = "ui"
    /\ input = << >>
    /\ text = << >>
    /\ result = NoResult
    /\ first = NoResult
    /\ padded = 0
    /\ ch = 0
    /\ index = None
    /\ plain = None
    /\ filled = None
    /\ focus = "Input"
    /\ status_line = HelpStatus
    /\ screen \in Rendered(<< >>)
    /\ copied = None
    /\ keys = << >>
    /\ prev_input = << >>

\* KeyCode::Char(c)
KeyChar ==
    /\ pc = "ui"
    /\ \E c \in UiChars :
        /\ focus = "Input" => Len(input) < MaxInput
        /\ input' = IF focus = "Input" THEN Append(input, c) ELSE input
    /\ screen' \in Rendered(input')
    /\ keys' = Pressed("Char")
    /\ prev_input' = input
    /\ copied' = None
    /\ UNCHANGED << pc, focus, status_line >>
    /\ UNCHANGED codec

\* KeyCode::Backspace
KeyBackspace ==
    /\ pc = "ui"
    /\ input' = IF focus = "Input" /\ input # << >>
                THEN SubSeq(input, 1, Len(input) - 1)
                ELSE input
    /\ screen' \in Rendered(input')
    /\ keys' = Pressed("Backspace")
    /\ prev_input' = input
    /\ copied' = None
    /\ UNCHANGED << pc, focus, status_line >>
    /\ UNCHANGED codec

\* KeyCode::Esc: the loop ends
KeyEsc ==
    /\ pc = "ui"
    /\ pc' = "exited"
    /\ keys' = Pressed("Esc")
    /\ prev_input' = input
    /\ copied' = None
    /\ UNCHANGED << input, focus, status_line, screen >>
    /\ UNCHANGED codec

\* KeyCode::Up
KeyUp ==
    /\ pc = "ui"
    /\ focus' = UpFocus(focus)
    /\ screen' \in Rendered(input)
    /\ keys' = Pressed("Up")
    /\ prev_input' = input
    /\ copied' = None
    /\ UNCHANGED << pc, input, status_line >>
    /\ UNCHANGED codec

\* KeyCode::Down
KeyDown ==
    /\ pc = "ui"
    /\ focus' = DownFocus(focus)
    /\ screen' \in Rendered(input)
    /\ keys' = Pressed("Down")
    /\ prev_input' = input
    /\ copied' = None
    /\ UNCHANGED << pc, input, status_line >>
    /\ UNCHANGED codec

\* what KeyCode::Enter executes: the command's content, if one is executed,
\* and is_err; stdout.execute may fail or not
EnterOutcomes ==
    CASE focus = "Input" ->
            {[cmd |-> Some(input), is_err |-> e] : e \in BOOLEAN}
      [] focus = "Encoded" ->
            {[cmd |-> Some(encode_string(input)), is_err |-> e] : e \in BOOLEAN}
      [] OTHER ->
            UNION {IF d # None
                   THEN {[cmd |-> Some(d[1]), is_err |-> e] : e \in BOOLEAN}
                   ELSE {[cmd |-> None, is_err |-> FALSE]} :
                        d \in decode_string(input)}

\* KeyCode::Enter
KeyEnter ==
    /\ pc = "ui"
    /\ \E o \in EnterOutcomes :
        /\ copied' = o.cmd
        /\ status_line' = IF o.is_err THEN FailedStatus ELSE CopiedStatus
    /\ screen' \in Rendered(input)
    /\ keys' = Pressed("Enter")
    /\ prev_input' = input
    /\ UNCHANGED << pc, input, focus >>
    /\ UNCHANGED codec

\* any other key code
KeyOther ==
    /\ pc = "ui"
    /\ screen' \in Rendered(input)
    /\ keys' = Pressed("Other")
    /\ prev_input' = input
    /\ copied' = None
    /\ UNCHANGED << pc, input, focus, status_line >>
    /\ UNCHANGED codec

\* an event that is no key press: the loop only renders again
NoKeyPress ==
    /\ pc = "ui"
    /\ screen' \in Rendered(input)
    /\ UNCHANGED << pc, input, focus, status_line, copied, keys, prev_input >>
    /\ UNCHANGED codec

NextUi ==
    \/ KeyChar
    \/ KeyBackspace
    \/ KeyEsc
    \/ KeyUp
    \/ KeyDown
    \/ KeyEnter
    \/ KeyOther
    \/ NoKeyPress

SpecUi == InitUi /\ [][NextUi]_vars

Next == Encode \/ Decode

NextDecode == Decode \/ AppendPad

NextTable == Lookup

Spec == Init /\ [][Next]_vars

SpecDecode == InitDecode /\ [][NextDecode]_vars

SpecTable == InitTable /\ [][NextTable]_vars

NextMain == MainDecode \/ MainDecodeFilled

SpecMain == InitMain /\ [][NextMain]_vars

(***************************************************************************)
(* What the properties below speak of, stated without the decoder's own    *)
(* operators.                                                              *)
(***************************************************************************)
\* c is one of the 64 characters of the alphabet
InAlphabet(c) == \E i \in 1..Len(TABLE) : TABLE[i] = c

\* the length of t once all its trailing '=' are removed
StrippedLen(t) ==
    CHOOSE n \in 0..Len(t) :
        /\ \A j \in (n + 1)..Len(t) : t[j] = PAD_CHAR
        /\ n = 0 \/ t[n] # PAD_CHAR

\* the number of trailing '=' of t
Trailing(t) == Len(t) - StrippedLen(t)

\* the full 4-character groups of t without its trailing '=', from 0
FullGroups(t) == 0..((StrippedLen(t) \div 4) - 1)

\* group k of t holds a '='
GroupHasPad(t, k) == \E j \in (4 * k + 1)..(4 * k + 4) : t[j] = PAD_CHAR

\* ceil(n / 3)
Ceil3(n) == (n + 2) \div 3

\* byte j (1..3) of the k-th 3-byte group of the input, an absent byte being 0
GroupByte(k, j) == IF 3 * k + j <= Len(input) THEN input[3 * k + j] ELSE 0

\* the four sextets of three bytes, shifted without loss and masked after
\* the OR
Sextets(b0, b1, b2) ==
    << b0 \div 4,
       BitAnd(BitOr(b0 * 16, b1 \div 16), 63),
       BitAnd(BitOr(b1 * 4, b2 \div 64), 63),
       BitAnd(b2, 63) >>

\* the 4 characters the k-th group of the input is to be encoded to
ExpectedGroup(k) ==
    LET present == Min(3, Len(input) - 3 * k)
        six == Sextets(GroupByte(k, 1), GroupByte(k, 2), GroupByte(k, 3))
    IN  [j \in 1..4 |-> IF j <= present + 1 THEN TABLE[six[j] + 1] ELSE PAD_CHAR]

(***************************************************************************)
(* Properties.                                                             *)
(***************************************************************************)
\* C1: round trip: decode_bytes on the output of encode_bytes returns Ok with
\* exactly the bytes that were encoded, for every input length and content.
C1_RoundTrip == pc = "decoded" => result = Ok(input)

C1_Witness ==
    /\ pc = "decoded"
    /\ input = << 255, 0, 128, 102, 111 >>
    /\ result = Ok(input)

\* C2: length law: an input of n bytes is encoded to exactly 4 * ceil(n/3)
\* characters; the empty input to the empty text.
C2_LengthLaw ==
    pc \in {"text", "decoded"} =>
        /\ Len(text) = 4 * Ceil3(Len(input))
        /\ input = << >> => text = << >>

C2_Witness ==
    /\ pc = "text"
    /\ Len(input) = 5
    /\ Len(text) = 8

\* C3: padding shape: the output ends with 0, 2 or 1 '=' for n mod 3 = 0, 1
\* or 2, every character before that suffix is an alphabet character, and
\* '=' occurs nowhere else.
C3_PaddingShape ==
    pc \in {"text", "decoded"} =>
        LET pads == CASE Len(input) % 3 = 0 -> 0
                      [] Len(input) % 3 = 1 -> 2
                      [] OTHER -> 1
        IN  /\ Len(text) >= pads
            /\ \A j \in 1..Len(text) :
                    IF j > Len(text) - pads
                    THEN text[j] = PAD_CHAR
                    ELSE InAlphabet(text[j]) /\ text[j] # PAD_CHAR

C3_Witness ==
    /\ pc = "text"
    /\ Len(input) = 4
    /\ input[4] = 255
    /\ SubSeq(text, 5, 8) = << 47, 119, PAD_CHAR, PAD_CHAR >>

\* C4: bit packing: the k-th group of 4 output characters is the alphabet
\* image of the four sextets of the k-th 3-byte group, absent bytes taken as
\* 0 and '=' at the positions a partial group does not determine; each
\* sextet is in 0..63; "f", "fo", "foo" encode to "Zg==", "Zm8=", "Zm9v".
C4_BitPacking ==
    pc \in {"text", "decoded"} =>
        /\ \A k \in 0..(Ceil3(Len(input)) - 1) :
            /\ 4 * k + 4 <= Len(text)
            /\ SubSeq(text, 4 * k + 1, 4 * k + 4) = ExpectedGroup(k)
            /\ \A j \in 1..4 :
                Sextets(GroupByte(k, 1), GroupByte(k, 2), GroupByte(k, 3))[j] \in 0..63
        /\ input = << 102 >> => text = << 90, 103, 61, 61 >>
        /\ input = << 102, 111 >> => text = << 90, 109, 56, 61 >>
        /\ input = << 102, 111, 111 >> => text = << 90, 109, 57, 118 >>

C4_Witness ==
    /\ pc = "text"
    /\ input = << 102, 111, 111, 255, 0, 128 >>
    /\ text = << 90, 109, 57, 118, 47, 119, 67, 65 >>

\* C5: the alphabet and its inverse: get_table_index returns Some(i) for the
\* i-th table character and None for every other byte value; the table holds
\* 64 distinct characters in the order A-Z, a-z, 0-9, '+', '/'.
C5_TableInverse ==
    /\ pc = "index" =>
        /\ \A i \in 0..63 : ch = TABLE[i + 1] => index = Some(i)
        /\ ~InAlphabet(ch) => index = None
    /\ Len(TABLE) = 64
    /\ Cardinality({TABLE[i] : i \in 1..Len(TABLE)}) = 64
    /\ \A i \in 0..25 : TABLE[i + 1] = 65 + i
    /\ \A i \in 26..51 : TABLE[i + 1] = 97 + (i - 26)
    /\ \A i \in 52..61 : TABLE[i + 1] = 48 + (i - 52)
    /\ TABLE[63] = 43
    /\ TABLE[64] = 47

C5_Witness ==
    /\ pc = "index"
    /\ ch = 57
    /\ index = Some(61)

\* C6: lenient trailing padding: when decode_bytes returns Ok(b) for a text,
\* it returns the same Ok(b) for that text followed by any number of further
\* '='; a text made only of '=' decodes to Ok of no bytes, like the empty
\* text.
C6_LenientPadding ==
    pc = "decoded" =>
        /\ first.tag = "Ok" => result = first
        /\ (\A j \in 1..Len(text) : text[j] = PAD_CHAR) => result = Ok(<< >>)

C6_Witness ==
    /\ pc = "decoded"
    /\ text = << 97, 97, 97, 97, 97, 97, 61, 61, 61, 61 >>
    /\ padded = 2
    /\ first.tag = "Ok"
    /\ result = first
    /\ Len(result.bytes) = 4

\* C7: decode_bytes returns InputLength exactly when the text without its
\* trailing '=' has a length of 1 modulo 4, whatever its characters are.
C7_InputLength ==
    pc = "decoded" =>
        (result = InputLength <=> StrippedLen(text) % 4 = 1)

C7_Witness ==
    /\ pc = "decoded"
    /\ text = << 33, 61, 97, 97, 97, 61 >>
    /\ padded = 0
    /\ result = InputLength

\* C8: minimum padding: with a stripped length of 2 modulo 4 and fewer than 2
\* trailing '=', or of 3 modulo 4 and no trailing '=', decode_bytes returns
\* WrongPadding whatever the characters are; with that many '=' or more, and
\* no '=' inside a full group, it does not return WrongPadding.
C8_MinimumPadding ==
    pc = "decoded" =>
        LET rem == StrippedLen(text) % 4
            short == \/ rem = 2 /\ Trailing(text) < 2
                     \/ rem = 3 /\ Trailing(text) < 1
        IN  /\ short => result = WrongPadding
            /\ (~short /\ \A k \in FullGroups(text) : ~GroupHasPad(text, k))
                    => result.tag # "WrongPadding"

C8_Witness ==
    /\ pc = "decoded"
    /\ text = << 97, 33, 97, 97, 97, 97, 61 >>
    /\ padded = 0
    /\ result = WrongPadding

C10_InvalidBytePayload ==
    (pc = "decoded" /\ result.tag = "InvalidByte") =>
        /\ \E j \in 1..Len(text) : text[j] = result.byte
        /\ ~InAlphabet(result.byte)
        /\ result.byte # PAD_CHAR

\* C11: the byte of an InvalidByte error is the character at the smallest
\* position of the text without its trailing '=' that has no sextet: every
\* character before it is an alphabet character.
C11_FirstInvalid ==
    (pc = "decoded" /\ result.tag = "InvalidByte") =>
        \E p \in 1..StrippedLen(text) :
            /\ text[p] = result.byte
            /\ ~InAlphabet(text[p])
            /\ \A q \in 1..(p - 1) : InAlphabet(text[q])

C11_Witness ==
    /\ pc = "decoded"
    /\ text = << 97, 47, 97, 47, 97, 33, 61, 61 >>
    /\ padded = 0
    /\ result = InvalidByte(33)

\* C12: when decode_bytes returns Ok, the result has 3 * floor(m/4) + r
\* bytes, m the length of the text without its trailing '=' and r = 0, 1, 2
\* for m mod 4 = 0, 2, 3; output_bytes has that many slots and every one of
\* them has been written when assume_init is reached; no write is out of
\* bounds.
C12_OutputInitialised ==
    pc = "decoded" =>
        /\ result.tag # "Panic"
        /\ result.tag = "Ok" =>
            LET m == StrippedLen(text)
                r == CASE m % 4 = 2 -> 1
                       [] m % 4 = 3 -> 2
                       [] OTHER -> 0
                output_bytes == DecodeRun(text).buf
            IN  /\ m % 4 # 1
                /\ Len(result.bytes) = 3 * (m \div 4) + r
                /\ Len(output_bytes) = 3 * (m \div 4) + r
                /\ \A j \in 1..Len(output_bytes) : output_bytes[j] # None

C12_Witness ==
    /\ pc = "decoded"
    /\ text = << 97, 97, 97, 97, 97, 47, 97, 61 >>
    /\ padded = 0
    /\ result.tag = "Ok"
    /\ Len(result.bytes) = 5

\* C13: in the earlier decoder of main.rs a final chunk of fewer than 4
\* characters counts as filled up with '=': a text of alphabet characters of
\* length 2 or 3 modulo 4 decodes to Some of the same bytes as that text
\* filled up with '=' to a multiple of 4.
C13_ShortFinalChunk ==
    (/\ pc = "filled"
     /\ \A j \in 1..Len(text) : InAlphabet(text[j])
     /\ Len(text) % 4 \in {2, 3})
        => /\ plain # None
           /\ plain = filled


(***************************************************************************)
(* The loop of run, src/src/app.rs.                                        *)
(***************************************************************************)
\* the focus after a Down press, as the claim lists it
AfterDown(f) ==
    IF f = "Input" THEN "Encoded" ELSE IF f = "Encoded" THEN "Decoded" ELSE "Input"

\* the focus after an Up press: the reverse order
AfterUp(f) ==
    IF f = "Input" THEN "Decoded" ELSE IF f = "Decoded" THEN "Encoded" ELSE "Input"

\* the key codes of the last n key presses, oldest first
LastCodes(n) == [j \in 1..n |-> keys[Len(keys) - n + j].code]

\* the focus before the last n key presses
FocusBefore(n) == keys[Len(keys) - n + 1].focus

\* C14: the focus starts at Input and is always one of the three lines; a
\* Down press moves it Input -> Encoded -> Decoded -> Input, an Up press
\* moves it in the reverse order, and no other key moves it; Down then Up,
\* or Up then Down, restore it, and so do three presses in one direction;
\* Up and Down leave the input text alone, and the input text changes only
\* by a Char or a Backspace pressed while the focus is Input.
C14_FocusCycle ==
    /\ focus \in FocusValues
    /\ (pc = "ui" /\ keys = << >>) => focus = "Input"
    /\ Len(keys) >= 1 =>
        LET last == keys[Len(keys)]
        IN  /\ last.code = "Down" => focus = AfterDown(last.focus)
            /\ last.code = "Up" => focus = AfterUp(last.focus)
            /\ last.code \notin {"Up", "Down"} => focus = last.focus
            /\ last.code \in {"Up", "Down"} => input = prev_input
            /\ input # prev_input =>
                /\ last.code \in {"Char", "Backspace"}
                /\ last.focus = "Input"
    /\ Len(keys) >= 2 =>
        (LastCodes(2) \in {<< "Down", "Up" >>, << "Up", "Down" >>}
            => focus = FocusBefore(2))
    /\ Len(keys) >= 3 =>
        (LastCodes(3) \in {<< "Down", "Down", "Down" >>, << "Up", "Up", "Up" >>}
            => focus = FocusBefore(3))

\* three Up presses from the Decoded line, with text typed before them
C14_Witness ==
    /\ pc = "ui"
    /\ Len(keys) >= 3
    /\ LastCodes(3) = << "Up", "Up", "Up" >>
    /\ FocusBefore(3) = "Decoded"
    /\ focus = "Decoded"
    /\ input = << 97, 97 >>

\* what the focused line holds
FocusedContent ==
    CASE focus = "Input" -> {input}
      [] focus = "Encoded" -> {encode_string(input)}
      [] OTHER -> {d[1] : d \in decode_string(input) \ {None}}

\* C15: when an Enter press has set the status line to "Copied to
\* clipboard!", that press executed a CopyToClipboard command with the
\* content of the focused line.
C15_CopiedStatus ==
    (/\ pc = "ui"
     /\ keys # << >>
     /\ keys[Len(keys)].code = "Enter"
     /\ status_line = CopiedStatus)
        => /\ copied # None
           /\ copied[1] \in FocusedContent
=============================================================================
